---- MODULE Spec2Model ----
(***************************************************************************)
(* Model of koradGui: the serial codec of koradserial.py (KoradSerial and  *)
(* its Serial, Channel, OnOffButton and Status classes) and the background *)
(* controller of control.py (PowerSupplyCtrl: command, event and sample    *)
(* queues, the worker thread and the caller's facade).                     *)
(*                                                                         *)
(* Encoding.  A byte is an integer 0..255; a str is a sequence of          *)
(* character codes.  An input stream is the sequence of results of the     *)
(* successive port.read(1) calls of one exchange: a byte, ReadErr where    *)
(* pyserial raises SerialException, and the end of the sequence where the  *)
(* read times out and returns b''.  A float is an integer number of        *)
(* thousandths (volts or amperes); None is NoneVal.  Text written to the   *)
(* port is a TLA+ string.                                                  *)
(***************************************************************************)
EXTENDS Integers, Sequences, FiniteSets, TLC

\* ------------------------------------------------------------------------
\* koradserial.py: transport and device model
\* ------------------------------------------------------------------------

NoneVal == -1
ReadErr == -2
NoExc == "none"

NUL == 0
LF == 10
DOT == 46
ZERO == 48

\* Mutant of CaughtErrors: DisconnectedError is not caught.
CaughtErrorsNoDisconnect == {"ValueError", "IndexError"}

\* control.py:162-165 with koradserial.py:39-43: the exceptions that
\* _call_error_handle catches (DisconnectedError and the CommunicationError
\* tuple); anything else leaves the worker's loop.
CaughtErrors == {"DisconnectedError", "ValueError", "IndexError"}

IsDigit(c) == c >= ZERO /\ c <= ZERO + 9

\* Serial.read_character on the stream s: '' on timeout, ValueError for a
\* byte that is not ASCII, SerialException from port.read.
read_character(s) ==
  IF s = <<>> THEN [exc |-> NoExc, c |-> <<>>, rest |-> <<>>]
  ELSE IF Head(s) = ReadErr THEN [exc |-> "SerialException", c |-> <<>>, rest |-> Tail(s)]
  ELSE IF Head(s) >= 128 THEN [exc |-> "ValueError", c |-> <<>>, rest |-> Tail(s)]
  ELSE [exc |-> NoExc, c |-> <<Head(s)>>, rest |-> Tail(s)]

\* Serial.read_byte: c[0] of port.read(1); IndexError when the read timed out.
read_byte(s) ==
  IF s = <<>> THEN [exc |-> "IndexError", b |-> 0, rest |-> <<>>]
  ELSE IF Head(s) = ReadErr THEN [exc |-> "SerialException", b |-> 0, rest |-> Tail(s)]
  ELSE [exc |-> NoExc, b |-> Head(s), rest |-> Tail(s)]

\* The loop of Serial.read_string: `result` collected so far, `r` the
\* character just read.  fixed_length = 0 stands for None.
RECURSIVE read_loop(_, _, _)
read_loop(result, r, fixed_length) ==
  IF r.exc # NoExc THEN [exc |-> r.exc, result |-> result, rest |-> r.rest]
  ELSE IF r.c = <<>> \/ r.c[1] = NUL THEN [exc |-> NoExc, result |-> result, rest |-> r.rest]
  ELSE LET res2 == result \o r.c IN
       IF fixed_length # 0 /\ Len(res2) = fixed_length
       THEN [exc |-> NoExc, result |-> res2, rest |-> r.rest]
       ELSE read_loop(res2, read_character(r.rest), fixed_length)

\* Mutant of strip_newlines: the trailing newline is kept.
strip_newlinesLeading(result) ==
  IF result = <<>> THEN [exc |-> "IndexError", str |-> <<>>]
  ELSE LET r1 == IF result[1] = LF THEN Tail(result) ELSE result IN
       IF r1 = <<>> THEN [exc |-> "IndexError", str |-> <<>>]
       ELSE [exc |-> NoExc, str |-> r1]

\* The newline stripping at the end of Serial.read_string: result[0] and
\* result[-1] raise IndexError on an empty list.
strip_newlines(result) ==
  IF result = <<>> THEN [exc |-> "IndexError", str |-> <<>>]
  ELSE LET r1 == IF result[1] = LF THEN Tail(result) ELSE result IN
       IF r1 = <<>> THEN [exc |-> "IndexError", str |-> <<>>]
       ELSE IF r1[Len(r1)] = LF THEN [exc |-> NoExc, str |-> SubSeq(r1, 1, Len(r1) - 1)]
       ELSE [exc |-> NoExc, str |-> r1]

\* Mutant of read_string: a read capped by fixed_length also consumes the
\* byte that follows.
read_stringDiscard(s, fixed_length) ==
  LET l == read_loop(<<>>, read_character(s), fixed_length) IN
  IF l.exc # NoExc THEN [exc |-> l.exc, str |-> <<>>, rest |-> l.rest]
  ELSE LET t == strip_newlines(l.result) IN
       [exc |-> t.exc, str |-> t.str,
        rest |-> IF fixed_length # 0 /\ l.rest # <<>> THEN Tail(l.rest) ELSE l.rest]

\* Serial.read_string(fixed_length) on the stream s.
read_string(s, fixed_length) ==
  LET l == read_loop(<<>>, read_character(s), fixed_length) IN
  IF l.exc # NoExc THEN [exc |-> l.exc, str |-> <<>>, rest |-> l.rest]
  ELSE LET t == strip_newlines(l.result) IN
       [exc |-> t.exc, str |-> t.str, rest |-> l.rest]

\* float() of the digit string d: its value as an integer.
RECURSIVE digits_value(_)
digits_value(d) ==
  IF d = <<>> THEN 0 ELSE 10 * digits_value(SubSeq(d, 1, Len(d) - 1)) + (d[Len(d)] - ZERO)

AllDigits(d) == \A i \in 1..Len(d) : IsDigit(d[i])

\* float() ignores surrounding whitespace.
RECURSIVE strip_ws(_)
strip_ws(v) ==
  IF v = <<>> THEN v
  ELSE IF v[1] = LF THEN strip_ws(Tail(v))
  ELSE IF v[Len(v)] = LF THEN strip_ws(SubSeq(v, 1, Len(v) - 1))
  ELSE v

\* float_or_none(value) for the plain decimal literals the device sends
\* (digits, at most one point, at most three decimals), in thousandths;
\* None for anything float() rejects.
float_or_none(value) ==
  LET v == strip_ws(value)
      dots == {i \in 1..Len(v) : v[i] = DOT}
  IN IF v = <<>> \/ Cardinality(dots) > 1 THEN NoneVal
     ELSE IF dots = {} THEN (IF AllDigits(v) THEN 1000 * digits_value(v) ELSE NoneVal)
     ELSE LET p == CHOOSE i \in dots : TRUE
              ip == SubSeq(v, 1, p - 1)
              fp == SubSeq(v, p + 1, Len(v))
              pad == [i \in 1..3 |-> IF i <= Len(fp) THEN fp[i] ELSE ZERO]
          IN IF Len(ip) + Len(fp) = 0 \/ Len(fp) > 3 \/ ~AllDigits(ip) \/ ~AllDigits(fp)
             THEN NoneVal
             ELSE 1000 * digits_value(ip) + digits_value(pad)

\* str.split(sep): the list of the fields of s.
RECURSIVE split(_, _)
split(s, sep) ==
  IF \A i \in 1..Len(s) : s[i] # sep THEN <<s>>
  ELSE LET k == CHOOSE i \in 1..Len(s) : s[i] = sep /\ \A j \in 1..(i - 1) : s[j] # sep
       IN <<SubSeq(s, 1, k - 1)>> \o split(SubSeq(s, k + 1, Len(s)), sep)

\* Two decimal digits of n, 0 <= n.
Pad2(n) == IF n < 10 THEN "0" \o ToString(n) ELSE ToString(n)

\* "{:05.2f}".format(value): two decimals, zero-padded to five characters.
\* value is in thousandths; the voltages of the model lie on the 0.01 grid,
\* so the rounding never meets a tie.
Fmt052f(value) ==
  LET h == (value + 5) \div 10 IN
  Pad2(h \div 100) \o "." \o Pad2(h % 100)

\* "{:05.3f}".format(value), value in thousandths.
Fmt053f(value) ==
  LET f == value % 1000 IN
  ToString(value \div 1000) \o "."
    \o (IF f < 10 THEN "00" ELSE IF f < 100 THEN "0" ELSE "") \o ToString(f)

\* Serial.send(text) when port.write ends as wr ("ok" or "SerialException"):
\* what reaches the wire is "\r" + text.
send(text, wr) ==
  IF wr = "ok" THEN [exc |-> NoExc, sent |-> <<"\r" \o text>>]
  ELSE [exc |-> "DisconnectedError", sent |-> <<>>]

\* Serial.send_receive(text, fixed_length) with the reply stream s.
send_receive(text, fixed_length, wr, s) ==
  LET w == send(text, wr) IN
  IF w.exc # NoExc THEN [exc |-> w.exc, sent |-> w.sent, str |-> <<>>]
  ELSE LET r == read_string(s, fixed_length) IN
       [exc |-> r.exc, sent |-> w.sent, str |-> r.str]

\* Tracking(value): 2 is no member of the enum.
Tracking(value) ==
  CASE value = 0 -> [exc |-> NoExc, name |-> "independent"]
    [] value = 1 -> [exc |-> NoExc, name |-> "series"]
    [] value = 3 -> [exc |-> NoExc, name |-> "parallel"]
    [] OTHER -> [exc |-> "ValueError", name |-> "none"]

ChannelMode(value) == IF value = 0 THEN "constant_current" ELSE "constant_voltage"

\* Status.__init__(status).
Status(status) ==
  LET t == Tracking((status \div 4) % 4) IN
  [exc |-> t.exc,
   raw |-> status,
   channel1 |-> ChannelMode(status % 2),
   channel2 |-> ChannelMode((status \div 2) % 2),
   tracking |-> t.name,
   beep |-> (status \div 16) % 2 = 1,
   ocp |-> (status \div 32) % 2 = 1,
   output |-> (status \div 64) % 2 = 1,
   ovp |-> (status \div 128) % 2 = 1]

NoStatus == [exc |-> NoExc, raw |-> 0, channel1 |-> "constant_current",
             channel2 |-> "constant_current", tracking |-> "none",
             beep |-> FALSE, ocp |-> FALSE, output |-> FALSE, ovp |-> FALSE]

\* KoradSerial.status: send STATUS?, read one raw byte, decode it.
status_query(wr, s) ==
  LET w == send("STATUS?", wr) IN
  IF w.exc # NoExc THEN [exc |-> w.exc, sent |-> w.sent, status |-> NoStatus]
  ELSE LET b == read_byte(s) IN
       IF b.exc # NoExc THEN [exc |-> b.exc, sent |-> w.sent, status |-> NoStatus]
       ELSE LET st == Status(b.b) IN [exc |-> st.exc, sent |-> w.sent, status |-> st]

\* Channel.voltage (getter) of channel 1.
voltage_get(wr, s) ==
  LET r == send_receive("VSET1?", 5, wr, s) IN
  [exc |-> r.exc, sent |-> r.sent,
   val |-> IF r.exc = NoExc THEN float_or_none(r.str) ELSE NoneVal]

\* Channel.current (getter) of channel 1: six characters read, result[:5] parsed.
current_get(wr, s) ==
  LET r == send_receive("ISET1?", 6, wr, s) IN
  [exc |-> r.exc, sent |-> r.sent,
   val |-> IF r.exc = NoExc
           THEN float_or_none(SubSeq(r.str, 1, IF Len(r.str) < 5 THEN Len(r.str) ELSE 5))
           ELSE NoneVal]

\* Channel.output_pair of channel 1: vs, cs = result.split("\n").
output_pair(wr, s) ==
  LET r == send_receive("VOUT1?\rIOUT1?", 11, wr, s) IN
  IF r.exc # NoExc THEN [exc |-> r.exc, sent |-> r.sent, v |-> NoneVal, c |-> NoneVal]
  ELSE LET parts == split(r.str, LF) IN
       IF Len(parts) # 2 THEN [exc |-> "ValueError", sent |-> r.sent, v |-> NoneVal, c |-> NoneVal]
       ELSE [exc |-> NoExc, sent |-> r.sent,
             v |-> float_or_none(parts[1]), c |-> float_or_none(parts[2])]

\* Channel.voltage (setter): the format of None raises TypeError before
\* anything is sent.
voltage_set(value, wr) ==
  IF value = NoneVal THEN [exc |-> "TypeError", sent |-> <<>>]
  ELSE send("VSET1:" \o Fmt052f(value), wr)

\* Channel.current (setter).
current_set(value, wr) ==
  IF value = NoneVal THEN [exc |-> "TypeError", sent |-> <<>>]
  ELSE send("ISET1:" \o Fmt053f(value), wr)

\* Mutant of button_set: the two commands are exchanged.
button_setInverted(on_command, off_command, state, wr) ==
  IF state THEN send(off_command, wr) ELSE send(on_command, wr)

\* OnOffButton.set(state) of the button with the given on/off commands.
button_set(on_command, off_command, state, wr) ==
  IF state THEN send(on_command, wr) ELSE send(off_command, wr)

\* ------------------------------------------------------------------------
\* control.py: PowerSupplyCtrl
\* ------------------------------------------------------------------------

\* Bounds of the model: what the caller and the streaming loop may do in one
\* run.  Spec bounds the commands enqueued and the streaming polls; SpecSet
\* adds the caller's writes of the desired fields.
MaxCmds == 2
MaxPolls == 1
SetMaxCmds == 2
MaxSets == 2
DataMaxPolls == 3

VARIABLES
  stream_output, voltage, current, voltage_output, current_output,
  lock, ocp, ovp, output,
  cmd_queue, event_queue, data_queue, thread, closed, pending,
  port_open,
  wpc, wcmd, wops,
  cpc, data,
  hist, execd, call, nsamples, returned, counts, mutated, enq, budget,
  evhist, evread,
  cin, cout, cop

fields == <<stream_output, voltage, current, lock, ocp, ovp, output>>
measured == <<voltage_output, current_output>>
worker == <<wpc, wcmd, wops>>
vars == <<stream_output, voltage, current, voltage_output, current_output,
          lock, ocp, ovp, output,
          cmd_queue, event_queue, data_queue, thread, closed, pending,
          port_open, wpc, wcmd, wops, cpc, data,
          hist, execd, call, nsamples, returned, counts, mutated, enq, budget,
          evhist, evread, cin, cout, cop>>
\* The record of the events published and of what read_event returned.
evlog == <<evhist, evread>>
\* The input, the function applied and its result, when one function of
\* koradserial.py is run alone.
codec == <<cin, cout, cop>>

\* class CmdOption
CmdOption == {"SETPOINT", "OUTPUT_READING", "LOCK", "STATUS"}

NoCmd == [cmd |-> "NONE", options |-> {}]
StopCmd == [cmd |-> "STOP", options |-> {}]

\* Values the caller writes into the desired fields (thousandths).
Voltages == {5000}
Currents == {500}

\* Option sets the caller passes to write_custom.
CustomOptions == {{"LOCK", "OUTPUT_READING"}}

\* What port.write does: it raises SerialException on a lost link, and
\* always on a closed port.
WriteResults == IF port_open THEN {"ok", "SerialException"} ELSE {"SerialException"}

\* Input streams the device may answer a query with.
\* STATUS?: output and OCP on, CV; tracking bits 10; read error.
StatusStreams == {<<97>>, <<8>>, <<ReadErr>>}
\* VSET1?: "12.00"; "ERROR".
VsetStreams == {<<49, 50, 46, 48, 48>>, <<69, 82, 82, 79, 82>>}
\* ISET1?: "1.250" and a stray "K"; timeout.
IsetStreams == {<<49, 46, 50, 53, 48, 75>>, <<>>}
\* VOUT1?\rIOUT1?: "04.99\n0.499"; "05.00" alone; read error.
PairStreams == {<<48, 52, 46, 57, 57, LF, 48, 46, 52, 57, 57>>,
                <<48, 53, 46, 48, 48>>,
                <<ReadErr>>}

\* Mutants of QueueGet: the newest item first; the item left in the queue.
QueueGetLast(q) == [item |-> q[Len(q)], rest |-> SubSeq(q, 1, Len(q) - 1)]

QueueGetKeep(q) == [item |-> Head(q), rest |-> q]

\* Queue.get on a non-empty queue: the oldest item.
QueueGet(q) == [item |-> Head(q), rest |-> Tail(q)]

\* Queue.put.
QueuePut(q, item) == Append(q, item)

DisconnectedEvent(e) == [event |-> "DISCONNECTED", data |-> e]
ReadFinishedEvent == [event |-> "READ_FINISHED", data |-> "None"]

NoCall == [kind |-> "none", cmd |-> NoCmd, sent |-> <<>>, exc |-> NoExc, events |-> <<>>]

\* The record kept of a command at its put, in the runs that record it: the
\* desired voltage and current at that moment, and whether the caller or the
\* worker has written another voltage or current since, before the command
\* has ended.
Enqueued == [voltage |-> voltage, current |-> current, caller |-> FALSE, worker |-> FALSE]

\* The commands that have ended.
Ended == IF wpc = "exec" THEN Len(execd) - 1 ELSE Len(execd)

\* enq after `who` has stored v and c in voltage and current.
Noted(who, v, c) ==
  IF ~budget.record \/ (v = voltage /\ c = current) THEN enq
  ELSE [i \in 1..Len(enq) |-> IF i > Ended THEN [enq[i] EXCEPT ![who] = TRUE] ELSE enq[i]]

\* PowerSupplyCtrl.__init__; b is what the run may still do.
InitWith(b) ==
  /\ budget = b
  /\ stream_output = FALSE
  /\ voltage = 0
  /\ current = 0
  /\ voltage_output = 0
  /\ current_output = 0
  /\ lock = FALSE
  /\ ocp = FALSE
  /\ ovp = FALSE
  /\ output = FALSE
  /\ cmd_queue = <<>>
  /\ event_queue = <<>>
  /\ data_queue = <<>>
  /\ thread = "None"
  /\ closed = FALSE
  /\ pending = FALSE
  /\ port_open = TRUE
  /\ wpc = "none"
  /\ wcmd = NoCmd
  /\ wops = <<>>
  /\ cpc = "idle"
  /\ data = <<>>
  /\ hist = <<>>
  /\ execd = <<>>
  /\ call = NoCall
  /\ nsamples = 0
  /\ returned = <<>>
  /\ counts = [spawned |-> 0, joins |-> 0, port_closes |-> 0, reclosed |-> FALSE]
  /\ mutated = FALSE
  /\ enq = <<>>
  /\ evhist = <<>>
  /\ evread = <<>>

\* Mutant of ReadOps: the output pair is read whatever the options.
ReadOpsWithOutput(options) ==
  (IF "STATUS" \in options THEN <<"status">> ELSE <<>>)
  \o (IF "SETPOINT" \in options THEN <<"voltage_get", "current_get">> ELSE <<>>)
  \o <<"output_pair">>

\* The device calls of _read(options), in the order of its if statements.
ReadOps(options) ==
  (IF "STATUS" \in options THEN <<"status">> ELSE <<>>)
  \o (IF "SETPOINT" \in options THEN <<"voltage_get", "current_get">> ELSE <<>>)
  \o (IF "OUTPUT_READING" \in options THEN <<"output_pair">> ELSE <<>>)

\* Mutant of WriteOps: the setpoint is written first.
WriteOpsSetpointFirst(options) ==
  (IF "SETPOINT" \in options THEN <<"voltage_set", "current_set">> ELSE <<>>)
  \o (IF "STATUS" \in options THEN <<"ocp_set", "ovp_set", "output_set">> ELSE <<>>)
  \o (IF "LOCK" \in options THEN <<"lock_set">> ELSE <<>>)

\* Mutant of WriteOps: the lock is always written too.
WriteOpsWithLock(options) ==
  (IF "STATUS" \in options THEN <<"ocp_set", "ovp_set", "output_set">> ELSE <<>>)
  \o <<"lock_set">>
  \o (IF "SETPOINT" \in options THEN <<"voltage_set", "current_set">> ELSE <<>>)

\* The device calls of _write(options), in the order of its if statements.
WriteOps(options) ==
  (IF "STATUS" \in options THEN <<"ocp_set", "ovp_set", "output_set">> ELSE <<>>)
  \o (IF "LOCK" \in options THEN <<"lock_set">> ELSE <<>>)
  \o (IF "SETPOINT" \in options THEN <<"voltage_set", "current_set">> ELSE <<>>)

\* func = {Cmd.READ: self._read, Cmd.WRITE: self._write}[cmd]
FuncOps(c) == IF c.cmd = "READ" THEN ReadOps(c.options) ELSE WriteOps(c.options)

\* The input streams of a device call.
Streams(op) ==
  CASE op = "status" -> StatusStreams
    [] op = "voltage_get" -> VsetStreams
    [] op = "current_get" -> IsetStreams
    [] op = "output_pair" -> PairStreams
    [] OTHER -> {<<>>}

\* Mutant of DeviceCall: the setters are given the voltage and current the
\* fields held when the command was enqueued.
DeviceCallAtEnqueue(op, wr, s) ==
  LET f == [voltage |-> voltage, current |-> current, ocp |-> ocp, ovp |-> ovp,
            output |-> output, voltage_output |-> voltage_output,
            current_output |-> current_output]
      e == IF budget.record THEN enq[Len(execd)] ELSE Enqueued
      Res(r, g) == [exc |-> r.exc, sent |-> r.sent, f |-> IF r.exc = NoExc THEN g ELSE f]
  IN CASE op = "status" ->
            LET r == status_query(wr, s) IN
            Res(r, [f EXCEPT !.ocp = r.status.ocp, !.ovp = r.status.ovp,
                             !.output = r.status.output])
       [] op = "voltage_get" ->
            LET r == voltage_get(wr, s) IN Res(r, [f EXCEPT !.voltage = r.val])
       [] op = "current_get" ->
            LET r == current_get(wr, s) IN Res(r, [f EXCEPT !.current = r.val])
       [] op = "output_pair" ->
            LET r == output_pair(wr, s) IN
            Res(r, [f EXCEPT !.voltage_output = r.v, !.current_output = r.c])
       [] op = "ocp_set" -> Res(button_set("OCP1", "OCP0", ocp, wr), f)
       [] op = "ovp_set" -> Res(button_set("OVP1", "OVP0", ovp, wr), f)
       [] op = "output_set" -> Res(button_set("OUT1", "OUT0", output, wr), f)
       [] op = "lock_set" -> Res(button_set("LOCK1", "LOCK0", lock, wr), f)
       [] op = "voltage_set" -> Res(voltage_set(e.voltage, wr), f)
       [] op = "current_set" -> Res(current_set(e.current, wr), f)

\* One device call of _read/_write with the assignment of its result: the
\* exception it ends with, what it sent, and the fields after it.
DeviceCall(op, wr, s) ==
  LET f == [voltage |-> voltage, current |-> current, ocp |-> ocp, ovp |-> ovp,
            output |-> output, voltage_output |-> voltage_output,
            current_output |-> current_output]
      Res(r, g) == [exc |-> r.exc, sent |-> r.sent, f |-> IF r.exc = NoExc THEN g ELSE f]
  IN CASE op = "status" ->
            LET r == status_query(wr, s) IN
            Res(r, [f EXCEPT !.ocp = r.status.ocp, !.ovp = r.status.ovp,
                             !.output = r.status.output])
       [] op = "voltage_get" ->
            LET r == voltage_get(wr, s) IN Res(r, [f EXCEPT !.voltage = r.val])
       [] op = "current_get" ->
            LET r == current_get(wr, s) IN Res(r, [f EXCEPT !.current = r.val])
       [] op = "output_pair" ->
            LET r == output_pair(wr, s) IN
            Res(r, [f EXCEPT !.voltage_output = r.v, !.current_output = r.c])
       [] op = "ocp_set" -> Res(button_set("OCP1", "OCP0", ocp, wr), f)
       [] op = "ovp_set" -> Res(button_set("OVP1", "OVP0", ovp, wr), f)
       [] op = "output_set" -> Res(button_set("OUT1", "OUT0", output, wr), f)
       [] op = "lock_set" -> Res(button_set("LOCK1", "LOCK0", lock, wr), f)
       [] op = "voltage_set" -> Res(voltage_set(voltage, wr), f)
       [] op = "current_set" -> Res(current_set(current, wr), f)

\* Mutant of Assign: a read leaves the desired voltage and current alone.
AssignKeepDesired(r) ==
  /\ voltage' = voltage
  /\ current' = current
  /\ ocp' = r.f.ocp
  /\ ovp' = r.f.ovp
  /\ output' = r.f.output
  /\ voltage_output' = r.f.voltage_output
  /\ current_output' = r.f.current_output
  /\ enq' = enq

\* Mutant of Assign: the measured values are stored in the desired fields
\* too.
AssignMeasuredToDesired(r) ==
  /\ voltage' = r.f.voltage_output
  /\ current' = r.f.current_output
  /\ ocp' = r.f.ocp
  /\ ovp' = r.f.ovp
  /\ output' = r.f.output
  /\ voltage_output' = r.f.voltage_output
  /\ current_output' = r.f.current_output
  /\ enq' = enq

\* The assignments of a device call's result to the controller's fields.
Assign(r) ==
  /\ voltage' = r.f.voltage
  /\ current' = r.f.current
  /\ ocp' = r.f.ocp
  /\ ovp' = r.f.ovp
  /\ output' = r.f.output
  /\ voltage_output' = r.f.voltage_output
  /\ current_output' = r.f.current_output
  /\ enq' = Noted("worker", r.f.voltage, r.f.current)

\* Mutant of Finally: pending is not cleared.
FinallyNoClear(set_pending) == pending

\* _call_error_handle, lines 166-168: the finally clause.
Finally(set_pending) == IF set_pending THEN FALSE ELSE pending

\* _thread_main, line 54: the streaming test at the top of the loop.
WorkerTop ==
  /\ wpc = "top"
  /\ IF stream_output
     THEN /\ budget.polls > 0
          /\ wpc' = "poll"
          /\ budget' = [budget EXCEPT !.polls = @ - 1]
          /\ call' = [NoCall EXCEPT !.kind = "poll"]
     ELSE /\ wpc' = "get"
          /\ call' = NoCall
          /\ UNCHANGED budget
  /\ UNCHANGED <<fields, measured, cmd_queue, event_queue, data_queue, thread, closed,
                 pending, port_open, wcmd, wops, cpc, data, hist, execd, nsamples,
                 returned, counts, mutated, enq,
                 evlog, codec>>

\* _thread_main, lines 55-56: _call_error_handle(self._read, {OUTPUT_READING}),
\* set_pending left False; then the sample is queued, whatever the poll did.
\* An exception that is not caught ends the thread before the put.
WorkerPoll ==
  /\ wpc = "poll"
  /\ \E wr \in WriteResults, s \in PairStreams :
       \E r \in {DeviceCall("output_pair", wr, s)} :
       /\ Assign(r)
       /\ event_queue' = IF r.exc \in CaughtErrors
                         THEN QueuePut(event_queue, DisconnectedEvent(r.exc))
                         ELSE event_queue
       /\ evhist' = IF r.exc \in CaughtErrors
                    THEN Append(evhist, DisconnectedEvent(r.exc))
                    ELSE evhist
       /\ call' = [call EXCEPT !.sent = @ \o r.sent, !.exc = r.exc,
                               !.events = IF r.exc \in CaughtErrors
                                          THEN Append(@, "DISCONNECTED") ELSE @]
       /\ IF r.exc = NoExc \/ r.exc \in CaughtErrors
          THEN /\ data_queue' = QueuePut(data_queue,
                                         [v |-> r.f.voltage_output, c |-> r.f.current_output,
                                          n |-> nsamples + 1])
               /\ nsamples' = nsamples + 1
               /\ wpc' = "get"
          ELSE /\ wpc' = "crashed"
               /\ UNCHANGED <<data_queue, nsamples>>
  /\ pending' = Finally(FALSE)
  /\ UNCHANGED <<stream_output, lock, cmd_queue, thread, closed,
                 port_open, wcmd, wops, cpc, data, hist, execd, returned,
                 counts, mutated, budget,
                 evread, codec>>

\* _thread_main, lines 58-72: the timed get; Empty goes back to the top, STOP
\* returns, another command sets pending and enters _call_error_handle.
WorkerGet ==
  /\ wpc = "get"
  /\ IF cmd_queue = <<>>
     THEN /\ wpc' = "top"
          /\ UNCHANGED <<cmd_queue, pending, wcmd, wops, execd, call>>
     ELSE LET g == QueueGet(cmd_queue) IN
          /\ cmd_queue' = g.rest
          /\ IF g.item.cmd = "STOP"
             THEN /\ wpc' = "exited"
                  /\ UNCHANGED <<pending, wcmd, wops, execd, call>>
             ELSE /\ pending' = TRUE
                  /\ wcmd' = g.item
                  /\ wops' = FuncOps(g.item)
                  /\ execd' = Append(execd, g.item)
                  /\ call' = [NoCall EXCEPT !.kind = "cmd", !.cmd = g.item]
                  /\ wpc' = "exec"
  /\ UNCHANGED <<fields, measured, event_queue, data_queue, thread, closed, port_open,
                 cpc, data, hist, nsamples, returned, counts, mutated, enq, budget,
                 evlog, codec>>

\* _call_error_handle, lines 160-168, for a command: the next device call of
\* func(options).  When func returns, or a caught exception has published
\* DISCONNECTED, the finally clause clears pending; any other exception runs
\* the finally clause and ends the thread.
WorkerExec ==
  /\ wpc = "exec"
  /\ IF wops = <<>>
     THEN /\ pending' = Finally(TRUE)
          /\ wpc' = "post"
          /\ UNCHANGED <<voltage, current, ocp, ovp, output, measured, event_queue, evhist,
                         wops, call, enq>>
     ELSE \E wr \in WriteResults, s \in Streams(Head(wops)) :
            \E r \in {DeviceCall(Head(wops), wr, s)} :
            /\ Assign(r)
            /\ call' = [call EXCEPT !.sent = @ \o r.sent, !.exc = r.exc,
                                    !.events = IF r.exc \in CaughtErrors
                                               THEN Append(@, "DISCONNECTED") ELSE @]
            /\ CASE r.exc = NoExc /\ Len(wops) > 1 ->
                      /\ wops' = Tail(wops)
                      /\ UNCHANGED <<event_queue, evhist, pending, wpc>>
                 [] r.exc = NoExc /\ Len(wops) = 1 ->
                      /\ wops' = <<>>
                      /\ pending' = Finally(TRUE)
                      /\ wpc' = "post"
                      /\ UNCHANGED <<event_queue, evhist>>
                 [] r.exc \in CaughtErrors ->
                      /\ wops' = <<>>
                      /\ event_queue' = QueuePut(event_queue, DisconnectedEvent(r.exc))
                      /\ evhist' = Append(evhist, DisconnectedEvent(r.exc))
                      /\ pending' = Finally(TRUE)
                      /\ wpc' = "post"
                 [] OTHER ->
                      /\ wops' = <<>>
                      /\ pending' = Finally(TRUE)
                      /\ wpc' = "crashed"
                      /\ UNCHANGED <<event_queue, evhist>>
  /\ UNCHANGED <<stream_output, lock, cmd_queue, data_queue, thread, closed, port_open,
                 wcmd, cpc, data, hist, execd, nsamples, returned, counts, mutated, budget,
                 evread, codec>>

\* _thread_main, lines 74-77: READ_FINISHED after a read command, task_done.
WorkerPost ==
  /\ wpc = "post"
  /\ IF wcmd.cmd = "READ"
     THEN /\ event_queue' = QueuePut(event_queue, ReadFinishedEvent)
          /\ evhist' = Append(evhist, ReadFinishedEvent)
          /\ call' = [call EXCEPT !.events = Append(@, "READ_FINISHED")]
     ELSE UNCHANGED <<event_queue, evhist, call>>
  /\ wpc' = "top"
  /\ UNCHANGED <<fields, measured, cmd_queue, data_queue, thread, closed, pending,
                 port_open, wcmd, wops, cpc, data, hist, execd, nsamples, returned,
                 counts, mutated, enq, budget,
                 evread, codec>>

\* ---- the caller's thread ----

\* PowerSupplyCtrl.start
Start ==
  /\ cpc = "idle"
  /\ IF thread # "None"
     THEN UNCHANGED <<thread, wpc, counts>>
     ELSE /\ thread' = "Thread"
          /\ wpc' = "top"
          /\ counts' = [counts EXCEPT !.spawned = @ + 1]
  /\ UNCHANGED <<fields, measured, cmd_queue, event_queue, data_queue, closed, pending,
                 port_open, wcmd, wops, cpc, data, hist, execd, call, nsamples, returned,
                 mutated, enq, budget,
                 evlog, codec>>

\* Mutant of Close: the test of _closed is missing.
CloseNoGuard ==
  /\ cpc = "idle"
  /\ closed' = TRUE
  /\ IF thread # "None"
     THEN /\ cmd_queue' = QueuePut(cmd_queue, StopCmd)
          /\ hist' = Append(hist, StopCmd)
          /\ cpc' = "join"
          /\ UNCHANGED <<port_open, counts>>
     ELSE /\ port_open' = FALSE
          /\ counts' = [counts EXCEPT !.port_closes = @ + 1]
          /\ UNCHANGED <<cmd_queue, hist, cpc>>
  /\ UNCHANGED <<fields, measured, event_queue, data_queue, thread, pending, worker,
                 data, execd, call, nsamples, returned, mutated, enq, budget,
                 evlog, codec>>

\* PowerSupplyCtrl.close, lines 87-92 and 94: up to the join, or, with no
\* thread, to the end.
Close ==
  /\ cpc = "idle"
  /\ IF closed
     THEN /\ counts' = [counts EXCEPT !.reclosed = TRUE]
          /\ UNCHANGED <<closed, cmd_queue, hist, cpc, port_open>>
     ELSE /\ closed' = TRUE
          /\ IF thread # "None"
             THEN /\ cmd_queue' = QueuePut(cmd_queue, StopCmd)
                  /\ hist' = Append(hist, StopCmd)
                  /\ cpc' = "join"
                  /\ UNCHANGED <<port_open, counts>>
             ELSE /\ port_open' = FALSE
                  /\ counts' = [counts EXCEPT !.port_closes = @ + 1]
                  /\ UNCHANGED <<cmd_queue, hist, cpc>>
  /\ UNCHANGED <<fields, measured, event_queue, data_queue, thread, pending, worker,
                 data, execd, call, nsamples, returned, mutated, enq, budget,
                 evlog, codec>>

\* PowerSupplyCtrl.close, lines 92-94: the join returns once the thread has
\* ended; then the transport is closed.
CloseJoin ==
  /\ cpc = "join"
  /\ wpc \in {"exited", "crashed"}
  /\ thread' = "None"
  /\ port_open' = FALSE
  /\ counts' = [counts EXCEPT !.joins = @ + 1, !.port_closes = @ + 1]
  /\ cpc' = "idle"
  /\ UNCHANGED <<fields, measured, cmd_queue, event_queue, data_queue, closed, pending,
                 worker, data, hist, execd, call, nsamples, returned, mutated, enq, budget,
                 evlog, codec>>

\* self._cmd_queue.put((cmd, options)) of the facade.
Enqueue(c) ==
  /\ cpc = "idle"
  /\ budget.cmds > 0
  /\ budget' = [budget EXCEPT !.cmds = @ - 1]
  /\ cmd_queue' = QueuePut(cmd_queue, c)
  /\ hist' = Append(hist, c)
  /\ mutated' = FALSE
  /\ enq' = IF budget.record THEN Append(enq, Enqueued) ELSE enq
  /\ UNCHANGED <<fields, measured, event_queue, data_queue, thread, closed, pending,
                 port_open, worker, cpc, data, execd, call, nsamples, returned, counts,
                 evlog, codec>>

read_output == Enqueue([cmd |-> "READ", options |-> {"OUTPUT_READING"}])

read_settings == Enqueue([cmd |-> "READ", options |-> {"SETPOINT", "STATUS"}])

write_setpoint == Enqueue([cmd |-> "WRITE", options |-> {"SETPOINT"}])

write_custom == \E options \in budget.custom : Enqueue([cmd |-> "WRITE", options |-> options])

write_all == Enqueue([cmd |-> "WRITE", options |-> {"SETPOINT", "LOCK", "STATUS"}])

\* PowerSupplyCtrl.read_output_data, line 97: data = [].
ReadOutputDataBegin ==
  /\ cpc = "idle"
  /\ data' = <<>>
  /\ cpc' = "drain"
  /\ UNCHANGED <<fields, measured, cmd_queue, event_queue, data_queue, thread, closed,
                 pending, port_open, worker, hist, execd, call, nsamples, returned,
                 counts, mutated, enq, budget,
                 evlog, codec>>

\* PowerSupplyCtrl.read_output_data, lines 98-103: one turn of the loop, or
\* the return of data.
ReadOutputDataStep ==
  /\ cpc = "drain"
  /\ IF data_queue # <<>>
     THEN LET g == QueueGet(data_queue) IN
          /\ data' = Append(data, g.item)
          /\ data_queue' = g.rest
          /\ UNCHANGED <<cpc, returned>>
     ELSE /\ returned' = returned \o [i \in 1..Len(data) |-> data[i].n]
          /\ data' = <<>>
          /\ cpc' = "idle"
          /\ UNCHANGED data_queue
  /\ UNCHANGED <<fields, measured, cmd_queue, event_queue, thread, closed, pending,
                 port_open, worker, hist, execd, call, nsamples, counts, mutated, enq, budget,
                 evlog, codec>>

\* What read_event returns on Empty: None.
NoEvent == [event |-> "None", data |-> "None"]

\* PowerSupplyCtrl.read_event: get_nowait, None on Empty.  evread records
\* what each call returned.
read_event ==
  /\ cpc = "idle"
  /\ budget.reads > 0
  /\ budget' = [budget EXCEPT !.reads = @ - 1]
  /\ IF event_queue = <<>>
     THEN /\ evread' = Append(evread, NoEvent)
          /\ UNCHANGED event_queue
     ELSE LET g == QueueGet(event_queue) IN
          /\ evread' = Append(evread, g.item)
          /\ event_queue' = g.rest
  /\ UNCHANGED <<fields, measured, cmd_queue, data_queue, thread, closed, pending,
                 port_open, worker, cpc, data, hist, execd, call, nsamples, returned,
                 counts, mutated, enq,
                 evhist, codec>>

\* The caller's write of stream_output (ui.py: ctrl.stream_output = True).
\* Streaming is switched on only while the run may still poll.
SetStream ==
  /\ cpc = "idle"
  /\ stream_output \/ budget.polls > 0
  /\ stream_output' = ~stream_output
  /\ UNCHANGED <<voltage, current, lock, ocp, ovp, output, measured, cmd_queue,
                 event_queue, data_queue, thread, closed, pending, port_open, worker, cpc,
                 data, hist, execd, call, nsamples, returned, counts, mutated, enq, budget,
                 evlog, codec>>

\* The caller's writes of the desired fields (ui.py: ctrl.voltage = ...,
\* ctrl.current = ..., ctrl.lock = ..., ctrl.output = not output).
CallerSets ==
  /\ cpc = "idle"
  /\ budget.sets > 0
  /\ budget' = [budget EXCEPT !.sets = @ - 1]
  /\ \/ \E v \in Voltages : voltage' = v /\ mutated' = TRUE
                            /\ enq' = Noted("caller", v, current)
                            /\ UNCHANGED <<stream_output, current, lock, ocp, ovp, output>>
     \/ \E c \in Currents : current' = c /\ mutated' = TRUE
                            /\ enq' = Noted("caller", voltage, c)
                            /\ UNCHANGED <<stream_output, voltage, lock, ocp, ovp, output>>
     \/ lock' = ~lock /\ UNCHANGED <<stream_output, voltage, current, ocp, ovp, output, mutated, enq>>
     \/ output' = ~output /\ UNCHANGED <<stream_output, voltage, current, lock, ocp, ovp, mutated, enq>>
  /\ UNCHANGED <<measured, cmd_queue, event_queue, data_queue, thread, closed, pending,
                 port_open, worker, cpc, data, hist, execd, call, nsamples, returned,
                 counts,
                 evlog, codec>>

\* ---- the functions of koradserial.py run alone ----

\* Bound of the input streams tried: their length.
MaxStream == 4

NoOut == [exc |-> NoExc]
NoOp == [f |-> "none", fixed_length |-> 0]

\* No function of koradserial.py is run alone.
CodecIdle == cin = <<>> /\ cout = NoOut /\ cop = NoOp

\* The bytes of the short input streams: NUL, newline, "1", "." and a byte
\* that is not ASCII.
StreamBytes == {NUL, LF, 49, DOT, 200}

\* The input streams: every stream of StreamBytes up to MaxStream bytes (the
\* empty one is a read that times out at once), every single byte, and
\* replies of seven bytes: six characters and one more byte, and a reply
\* framed by newlines.
CodecInputs ==
  UNION {[1..n -> StreamBytes] : n \in 0..MaxStream}
  \cup {<<b>> : b \in 0..255}
  \cup {<<49, 46, 50, 53, 48, 48, b>> : b \in {75, 49, LF, 200}}
  \cup {<<48, 46, 53, 48, 48, 75, 49>>}
  \cup {<<LF, 49, 46, 50, 51, 52, LF>>}

\* Status(status) on the byte read.
CallStatus ==
  /\ cop = NoOp
  /\ Len(cin) = 1
  /\ cout' = Status(cin[1])
  /\ cop' = [f |-> "Status", fixed_length |-> 0]
  /\ UNCHANGED <<fields, measured, cmd_queue, event_queue, data_queue, thread, closed,
                 pending, port_open, worker, cpc, data, hist, execd, call, nsamples,
                 returned, counts, mutated, enq, budget, evlog, cin>>

\* Serial.read_byte() on the stream.
CallReadByte ==
  /\ cop = NoOp
  /\ cout' = read_byte(cin)
  /\ cop' = [f |-> "read_byte", fixed_length |-> 0]
  /\ UNCHANGED <<fields, measured, cmd_queue, event_queue, data_queue, thread, closed,
                 pending, port_open, worker, cpc, data, hist, execd, call, nsamples,
                 returned, counts, mutated, enq, budget, evlog, cin>>

\* Serial.read_string(fixed_length) on the stream: terminator-based
\* (fixed_length None, written 0) or with the lengths the channel getters use.
CallReadString ==
  /\ cop = NoOp
  /\ \E fixed_length \in {0, 5, 6} :
       /\ cout' = read_string(cin, fixed_length)
       /\ cop' = [f |-> "read_string", fixed_length |-> fixed_length]
  /\ UNCHANGED <<fields, measured, cmd_queue, event_queue, data_queue, thread, closed,
                 pending, port_open, worker, cpc, data, hist, execd, call, nsamples,
                 returned, counts, mutated, enq, budget, evlog, cin>>

Worker == WorkerTop \/ WorkerPoll \/ WorkerGet \/ WorkerExec \/ WorkerPost

Lifecycle == Start \/ Close \/ CloseJoin

Commands == read_output \/ read_settings \/ write_setpoint \/ write_custom \/ write_all

\* The worker, the controller's lifecycle, the command facade and the
\* streaming switch.
Next == Worker \/ Lifecycle \/ Commands \/ SetStream

Init ==
  /\ InitWith([cmds |-> MaxCmds, polls |-> MaxPolls, sets |-> 0, reads |-> 0,
               custom |-> CustomOptions, record |-> FALSE])
  /\ CodecIdle

Spec == Init /\ [][Next]_vars

\* The same with the caller writing the desired fields, and no streaming.
NextSet ==
  \/ WorkerTop \/ WorkerGet \/ WorkerExec \/ WorkerPost
  \/ Start \/ Commands \/ CallerSets

InitSet ==
  /\ InitWith([cmds |-> SetMaxCmds, polls |-> 0, sets |-> MaxSets, reads |-> 0,
               custom |-> CustomOptions, record |-> FALSE])
  /\ CodecIdle

SpecSet == InitSet /\ [][NextSet]_vars

\* The streaming loop and the caller draining the sample queue.
NextData ==
  \/ WorkerTop \/ WorkerPoll \/ WorkerGet
  \/ Lifecycle \/ SetStream
  \/ ReadOutputDataBegin \/ ReadOutputDataStep

InitData ==
  /\ InitWith([cmds |-> 0, polls |-> DataMaxPolls, sets |-> 0, reads |-> 0,
               custom |-> CustomOptions, record |-> FALSE])
  /\ CodecIdle

SpecData == InitData /\ [][NextData]_vars

\* Bounds of SpecEvent: commands enqueued, streaming polls, read_event calls.
EventMaxCmds == 1
EventMaxPolls == 1
MaxEventReads == 3

\* The worker publishing events and the caller polling them with read_event.
NextEvent ==
  \/ Worker
  \/ Start \/ Commands \/ SetStream
  \/ read_event

InitEvent ==
  /\ InitWith([cmds |-> EventMaxCmds, polls |-> EventMaxPolls, sets |-> 0,
               reads |-> MaxEventReads, custom |-> CustomOptions, record |-> FALSE])
  /\ CodecIdle

SpecEvent == InitEvent /\ [][NextEvent]_vars

\* Bounds of SpecLock: commands enqueued, streaming polls, writes of the
\* desired fields.
LockMaxCmds == 1
LockMaxPolls == 1
LockMaxSets == 1

\* The worker with commands and streaming, and the caller writing the desired
\* fields.
NextLock ==
  \/ Worker
  \/ Start \/ Commands \/ SetStream \/ CallerSets

InitLock ==
  /\ InitWith([cmds |-> LockMaxCmds, polls |-> LockMaxPolls, sets |-> LockMaxSets,
               reads |-> 0, custom |-> CustomOptions, record |-> FALSE])
  /\ CodecIdle

SpecLock == InitLock /\ [][NextLock]_vars

\* Bound of SpecOpts: commands enqueued.
OptMaxCmds == 2

\* The worker and the command facade, write_custom taking any set of options.
NextOpts ==
  \/ WorkerTop \/ WorkerGet \/ WorkerExec \/ WorkerPost
  \/ Start \/ Commands

InitOpts ==
  /\ InitWith([cmds |-> OptMaxCmds, polls |-> 0, sets |-> 0, reads |-> 0,
               custom |-> SUBSET CmdOption, record |-> FALSE])
  /\ CodecIdle

SpecOpts == InitOpts /\ [][NextOpts]_vars

\* Bounds of SpecClose: commands enqueued, streaming polls.
CloseMaxCmds == 1
CloseMaxPolls == 2

InitClose ==
  /\ InitWith([cmds |-> CloseMaxCmds, polls |-> CloseMaxPolls, sets |-> 0, reads |-> 0,
               custom |-> CustomOptions, record |-> FALSE])
  /\ CodecIdle

\* The scheduling of the worker thread and of the thread blocked in join():
\* a thread that can take a step takes it in the end.  Every device call
\* returns or raises (port.read and port.write have timeouts,
\* koradserial.py:266-270) and the timed get of control.py:59 returns after
\* 0.01 s, so the worker is never blocked inside a step.
Fairness == WF_vars(Worker) /\ WF_vars(CloseJoin)

\* The steps of Spec under that scheduling.
SpecClose == InitClose /\ [][Next]_vars /\ Fairness

\* Bounds of SpecRace: commands enqueued, writes of the desired fields.
RaceMaxCmds == 2
RaceMaxSets == 2

\* read_settings and write_setpoint with the caller writing the desired
\* fields; the setpoint at each enqueue is recorded.
NextRace ==
  \/ WorkerTop \/ WorkerGet \/ WorkerExec \/ WorkerPost
  \/ Start \/ read_settings \/ write_setpoint \/ CallerSets

InitRace ==
  /\ InitWith([cmds |-> RaceMaxCmds, polls |-> 0, sets |-> RaceMaxSets, reads |-> 0,
               custom |-> CustomOptions, record |-> TRUE])
  /\ CodecIdle

SpecRace == InitRace /\ [][NextRace]_vars

\* One function of koradserial.py applied to one input.
NextCodec == CallStatus \/ CallReadByte \/ CallReadString

InitCodec ==
  /\ InitWith([cmds |-> 0, polls |-> 0, sets |-> 0, reads |-> 0, custom |-> CustomOptions, record |-> FALSE])
  /\ cin \in CodecInputs /\ cout = NoOut /\ cop = NoOp

SpecCodec == InitCodec /\ [][NextCodec]_vars

\* ------------------------------------------------------------------------
\* Properties
\* ------------------------------------------------------------------------

IsCmd(c) == c.cmd # "STOP"
NonStop(q) == SelectSeq(q, IsCmd)
WorkerGone == wpc \in {"none", "exited", "crashed"}
Published(e) == Cardinality({i \in 1..Len(event_queue) : event_queue[i].event = e})
Reads(q) == Cardinality({i \in 1..Len(q) : q[i].cmd = "READ"})
Stops(q) == Cardinality({i \in 1..Len(q) : q[i].cmd = "STOP"})
Serials(q) == [i \in 1..Len(q) |-> q[i].n]
WriteSetpointCmd == [cmd |-> "WRITE", options |-> {"SETPOINT"}]

\* C1: the read/write commands the worker has started executing, followed by
\* those still queued, are exactly the commands enqueued, in enqueue order:
\* every dequeued command is executed once, none is skipped or reordered.
C1_FifoExactlyOnce == execd \o NonStop(cmd_queue) = NonStop(hist)

\* Two different commands were executed, with a streaming poll in between or
\* before them.
C1_Witness ==
  /\ Len(execd) = 2
  /\ execd[1] # execd[2]
  /\ hist = execd
  /\ nsamples >= 1
  /\ wpc = "top"

\* C2: when port.write fails during a write command, the command ends with a
\* DISCONNECTED event carrying the DisconnectedError as the newest event,
\* pending false again, and the worker back in its loop.
C2_WriteFailureHandled ==
  (call.kind = "cmd" /\ call.cmd.cmd = "WRITE" /\ call.exc = "DisconnectedError")
    => /\ wpc \in {"post", "top"}
       /\ ~pending
       /\ event_queue # <<>>
       /\ event_queue[Len(event_queue)] = DisconnectedEvent("DisconnectedError")

\* A write command failed at the transport, and the worker then executed the
\* next command without failure.
C2_Witness ==
  /\ Len(execd) = 2
  /\ execd[1].cmd = "WRITE"
  /\ nsamples = 0
  /\ event_queue = <<DisconnectedEvent("DisconnectedError")>>
  /\ call.kind = "cmd" /\ call.cmd = execd[2] /\ call.exc = NoExc
  /\ port_open
  /\ wpc = "top"

\* C3: the worker's loop ends only by dequeuing STOP: no device failure ends
\* the thread.
C3_ExitsOnlyByStop == wpc # "crashed"

\* C4: close() has an effect once: over all calls one STOP at most is
\* enqueued, one join is made and the transport is closed once.
C4_CloseOnce ==
  /\ Stops(hist) <= 1
  /\ counts.joins <= 1
  /\ counts.port_closes <= 1

\* close() was called again after a close() that stopped a worker.
C4_Witness ==
  /\ counts.reclosed
  /\ counts.joins = 1
  /\ counts.port_closes = 1
  /\ Stops(hist) = 1

\* C5: after close() has stopped and joined a running worker, the transport
\* is never closed while a worker is alive.
C5_ClosedOnlyAfterExit == (~port_open /\ counts.joins >= 1) => WorkerGone

\* C6: one worker at most is ever spawned, and after close() has returned no
\* worker runs.
C6_Lifecycle ==
  /\ counts.spawned <= 1
  /\ (closed /\ cpc = "idle") => WorkerGone

\* The text Python prints for the desired values of the model.
ExpectedVset(v) == CASE v = 0 -> "\rVSET1:00.00" [] v = 5000 -> "\rVSET1:05.00"
                     [] v = 12000 -> "\rVSET1:12.00" [] OTHER -> "?"
ExpectedIset(c) == CASE c = 0 -> "\rISET1:0.000" [] c = 500 -> "\rISET1:0.500"
                     [] c = 1250 -> "\rISET1:1.250" [] OTHER -> "?"

C8_Original == pending <=> wpc \in {"exec", "poll"}

\* C8 as amended: pending is true exactly while the worker executes a
\* dequeued read/write command; it stays false during a streaming poll and is
\* false again after every command, failed or not.
C8_PendingDuringCommand == pending <=> wpc = "exec"

\* The worker is inside a streaming poll, after a command that failed.
C8_Witness ==
  /\ wpc = "poll"
  /\ ~pending
  /\ Len(execd) >= 1
  /\ event_queue # <<>>
  /\ event_queue[1].event = "DISCONNECTED"

\* C9: whenever the worker is not inside a command, the READ_FINISHED events
\* published are one per read command executed.
C9_ReadFinishedPerRead ==
  wpc \notin {"exec", "post"} => Published("READ_FINISHED") = Reads(execd)

\* C10: the samples returned so far, those of the batch being collected and
\* those still queued are the samples produced, each once and in production
\* order.
C10_SamplesInOrder ==
  returned \o Serials(data) \o Serials(data_queue) = [i \in 1..nsamples |-> i]

\* Two samples were returned and a later call is collecting the third.
C10_Witness ==
  /\ returned = <<1, 2>>
  /\ cpc = "drain"
  /\ Len(data) = 1
  /\ data[1].n = 3

IsEvent(e) == e # NoEvent

\* C11: the events read_event has returned, followed by those still queued,
\* are the events published, each once and in publication order; and a call
\* returns None exactly when the queue is empty at the call.
C11_ReadEvent ==
  /\ [](SelectSeq(evread, IsEvent) \o event_queue = evhist)
  /\ [][evread' # evread =>
          (evread'[Len(evread')] = NoEvent <=> event_queue = <<>>)]_vars

\* read_event returned None, then the two events of a failed read command in
\* publication order, while a later event is still queued.
C11_Witness ==
  /\ Len(evread) = 3
  /\ evread[1] = NoEvent
  /\ evread[2].event = "DISCONNECTED"
  /\ evread[3] = ReadFinishedEvent
  /\ event_queue # <<>>

PublishedEver(e) == Cardinality({i \in 1..Len(evhist) : evhist[i].event = e})

\* C12: over a session one DISCONNECTED event at most is published, also
\* while stream_output stays true and close() has not been called.
C12_SingleDisconnect == PublishedEver("DISCONNECTED") <= 1

Bit(b, k) == (b \div (2 ^ k)) % 2
ModeOfBit(x) == IF x = 1 THEN "constant_voltage" ELSE "constant_current"

\* C13: for every status byte b, decoding b succeeds and gives raw = b,
\* channel modes from bits 0 and 1, tracking from bits 2-3, beep from bit 4,
\* OCP from bit 5, output from bit 6 and OVP from bit 7.
C13_StatusDecode ==
  cop.f = "Status" =>
    /\ cout.exc = NoExc
    /\ cout.raw = cin[1]
    /\ cout.channel1 = ModeOfBit(Bit(cin[1], 0))
    /\ cout.channel2 = ModeOfBit(Bit(cin[1], 1))
    /\ cout.tracking = CASE Bit(cin[1], 3) = 0 /\ Bit(cin[1], 2) = 0 -> "independent"
                          [] Bit(cin[1], 3) = 0 /\ Bit(cin[1], 2) = 1 -> "series"
                          [] Bit(cin[1], 3) = 1 /\ Bit(cin[1], 2) = 1 -> "parallel"
                          [] OTHER -> "undefined"
    /\ cout.beep = (Bit(cin[1], 4) = 1)
    /\ cout.ocp = (Bit(cin[1], 5) = 1)
    /\ cout.output = (Bit(cin[1], 6) = 1)
    /\ cout.ovp = (Bit(cin[1], 7) = 1)

\* A reply of seven bytes: six characters, none a terminator and no newline
\* at either end, and one more byte that is not zero.
SixAndStray(s) ==
  /\ Len(s) = 7
  /\ \A i \in 1..6 : s[i] >= 1 /\ s[i] <= 127
  /\ s[1] # LF /\ s[6] # LF
  /\ s[7] # NUL

\* C14 as stated: read_string(fixed_length=6) on six characters and a stray
\* byte returns the six characters and has consumed the stray byte.
C14_Original ==
  (cop = [f |-> "read_string", fixed_length |-> 6] /\ SixAndStray(cin))
    => /\ cout.exc = NoExc
       /\ cout.str = SubSeq(cin, 1, 6)
       /\ cout.rest = <<>>

\* C14 as amended: it returns the six characters and reads no further; the
\* seventh byte is left unread, the first byte of the next read.
C14_FixedLengthStops ==
  (cop = [f |-> "read_string", fixed_length |-> 6] /\ SixAndStray(cin))
    => /\ cout.exc = NoExc
       /\ cout.str = SubSeq(cin, 1, 6)
       /\ cout.rest = <<cin[7]>>

\* "0.500K" and a stray "1" read with fixed_length=6.
C14_Witness ==
  /\ cop = [f |-> "read_string", fixed_length |-> 6]
  /\ cin = <<48, 46, 53, 48, 48, 75, 49>>
  /\ cout = [exc |-> NoExc, str |-> <<48, 46, 53, 48, 48, 75>>, rest |-> <<49>>]

\* The bytes of s before its first zero byte, or all of s.
BeforeNul(s) ==
  LET ends == {i \in 1..Len(s) : s[i] = NUL}
      k == IF ends = {} THEN Len(s) + 1 ELSE CHOOSE i \in ends : \A j \in ends : i <= j
  IN SubSeq(s, 1, k - 1)

\* s without one leading and one trailing newline.
Unframed(s) ==
  LET a == IF s # <<>> /\ s[1] = LF THEN SubSeq(s, 2, Len(s)) ELSE s
  IN IF a # <<>> /\ a[Len(a)] = LF THEN SubSeq(a, 1, Len(a) - 1) ELSE a

\* C15: terminator-based read_string either returns the characters before
\* the first zero byte (or the timeout) without one leading and one trailing
\* newline, or fails with ValueError or IndexError; it fails with IndexError
\* whenever no character was collected, with ValueError on a byte that is not
\* ASCII, and returns whenever a character is left after the first newline.
C15_TerminatorRead ==
  cop = [f |-> "read_string", fixed_length |-> 0] =>
    LET pre == BeforeNul(cin)
        bad == \E i \in 1..Len(pre) : pre[i] >= 128
    IN /\ cout.exc \in {NoExc, "IndexError", "ValueError"}
       /\ cout.exc = NoExc => cout.str = Unframed(pre)
       /\ bad <=> cout.exc = "ValueError"
       /\ (~bad /\ pre = <<>>) => cout.exc = "IndexError"
       /\ (~bad /\ pre # <<>> /\ pre # <<LF>>) => cout.exc = NoExc

\* "\n1.234\n" read up to the timeout gives "1.234".
C15_Witness ==
  /\ cop = [f |-> "read_string", fixed_length |-> 0]
  /\ cin = <<LF, 49, 46, 50, 51, 52, LF>>
  /\ cout.exc = NoExc
  /\ cout.str = <<49, 46, 50, 51, 52>>

\* C16: read_byte() on a read that timed out (no byte arrived) raises no
\* error.
C16_ReadByteTimeout ==
  (cop.f = "read_byte" /\ cin = <<>>) => cout.exc = NoExc

\* The worker is about to read the output pair, in a poll or a command.
ReadsOutput ==
  \/ wpc = "poll"
  \/ wpc = "exec" /\ wops # <<>> /\ Head(wops) = "output_pair"

\* C17: the VSET1 and ISET1 commands of a write carry the desired voltage
\* and current, and a read of the output pair, by a poll or a command, leaves
\* the desired voltage and current as they were.
C17_MeasuredNotWrittenBack ==
  /\ []((wpc = "exec" /\ wops = <<"current_set">> /\ call.exc = NoExc)
          => call.sent[Len(call.sent)] = ExpectedVset(voltage))
  /\ []((wpc = "post" /\ call.cmd.cmd = "WRITE" /\ "SETPOINT" \in call.cmd.options
          /\ call.exc = NoExc)
          => SubSeq(call.sent, Len(call.sent) - 1, Len(call.sent))
               = <<ExpectedVset(voltage), ExpectedIset(current)>>)
  /\ [][(ReadsOutput /\ (wpc' # wpc \/ wops' # wops))
          => (voltage' = voltage /\ current' = current)]_vars

\* The setpoint read from the device differs from the measured output, and
\* a write has sent the setpoint.
C17_Witness ==
  /\ voltage = 12000 /\ current = 1250
  /\ voltage_output = 4990 /\ current_output = 499
  /\ wpc = "post" /\ call.cmd = WriteSetpointCmd /\ call.exc = NoExc
  /\ call.sent = <<"\rVSET1:12.00", "\rISET1:1.250">>

\* A step of the worker thread (or its start).
WorkerStep == wpc' # wpc \/ wops' # wops

\* C18: no step of the worker changes lock, and the lock sub-operation of a
\* write sends LOCK1 when lock is true and LOCK0 when it is false.
C18_LockAuthoritative ==
  [][WorkerStep =>
       /\ lock' = lock
       /\ (wpc = "exec" /\ wops # <<>> /\ Head(wops) = "lock_set" /\ call'.exc = NoExc)
            => call'.sent = Append(call.sent, IF lock THEN "\rLOCK1" ELSE "\rLOCK0")]_vars

\* After a streaming poll, with lock set by the caller, a write of the lock
\* has sent LOCK1.
C18_Witness ==
  /\ lock
  /\ nsamples = 1
  /\ wpc = "post" /\ call.cmd.cmd = "WRITE" /\ call.exc = NoExc
  /\ call.sent = <<"\rLOCK1">>

\* The loop iterations that found stream_output true, so far.
PollsStarted == MaxPolls - budget.polls

\* C19: whenever the worker is not inside a poll, the samples pushed are one
\* per loop iteration that found stream_output true, whether its read
\* succeeded or not, and none from anything else.
C19_SamplePerPoll == wpc # "poll" => nsamples = PollsStarted

\* The text a button sends for a state.
ExpectedButton(name, state) == "\r" \o name \o (IF state THEN "1" ELSE "0")

\* What the sub-operations of the flags of command c send when none fails.
ExpectedTraffic(c) ==
  IF c.cmd = "READ"
  THEN (IF "STATUS" \in c.options THEN <<"\rSTATUS?">> ELSE <<>>)
       \o (IF "SETPOINT" \in c.options THEN <<"\rVSET1?", "\rISET1?">> ELSE <<>>)
       \o (IF "OUTPUT_READING" \in c.options THEN <<"\rVOUT1?\rIOUT1?">> ELSE <<>>)
  ELSE (IF "STATUS" \in c.options
        THEN <<ExpectedButton("OCP", ocp), ExpectedButton("OVP", ovp),
               ExpectedButton("OUT", output)>>
        ELSE <<>>)
       \o (IF "LOCK" \in c.options THEN <<ExpectedButton("LOCK", lock)>> ELSE <<>>)
       \o (IF "SETPOINT" \in c.options
           THEN <<ExpectedVset(voltage), ExpectedIset(current)>>
           ELSE <<>>)

IsPrefix(s, t) == Len(s) <= Len(t) /\ s = SubSeq(t, 1, Len(s))

\* The worker has ended a command.
CommandEnded == call.kind = "cmd" /\ wpc \in {"post", "crashed"}

\* C20 as stated: a command that has ended has performed the sub-operation
\* of every flag of its option set, however the others ended, and no other.
C20_Original == CommandEnded => call.sent = ExpectedTraffic(call.cmd)

\* C20 as amended: a command that ended without failure has performed the
\* sub-operations of exactly the flags of its option set (none for the empty
\* set); a command that failed has performed them, in the order STATUS,
\* LOCK, SETPOINT, OUTPUT_READING, up to the one that failed and none after.
C20_FlagsUntilFailure ==
  CommandEnded =>
    /\ IsPrefix(call.sent, ExpectedTraffic(call.cmd))
    /\ call.exc = NoExc => call.sent = ExpectedTraffic(call.cmd)

\* read_settings whose status reply cannot be decoded: STATUS? was sent, the
\* setpoint queries were not.
C20_Witness ==
  /\ wpc = "post"
  /\ call.kind = "cmd"
  /\ call.cmd = [cmd |-> "READ", options |-> {"SETPOINT", "STATUS"}]
  /\ call.exc = "ValueError"
  /\ call.sent = <<"\rSTATUS?">>

\* The device call the worker made last, in a command or a poll, failed.
CallFailed == call.kind \in {"cmd", "poll"} /\ call.exc # NoExc

\* C21: whenever a device call of the worker has failed, in a command or in
\* a streaming poll, at the transport or on the reply, the failure was caught
\* in the worker, which is still running, and a DISCONNECTED event carrying
\* the exception has been published for it.
C21_FailuresPublished ==
  CallFailed =>
    /\ wpc # "crashed"
    /\ call.events # <<>>
    /\ call.events[1] = "DISCONNECTED"
    /\ \E i \in 1..Len(evhist) : evhist[i] = DisconnectedEvent(call.exc)

\* The polls the run may still make are enough for the worker to reach every
\* item of the command queue (one poll before each get while streaming).
PollsSuffice == stream_output => budget.polls >= Len(cmd_queue)

\* close() has enqueued STOP and waits in join().
Joining == cpc = "join" /\ PollsSuffice

\* C22: once close() has enqueued STOP, whatever the command queue holds and
\* whether stream_output is true or false, the worker eventually dequeues
\* STOP and exits, and close() eventually returns.
C22_CloseTerminates ==
  /\ Joining ~> (wpc = "exited" /\ Stops(cmd_queue) = 0)
  /\ Joining ~> (cpc = "idle" /\ thread = "None" /\ ~port_open)

\* write_setpoint() has sent both values and ended without failure.
WriteSetpointDone ==
  wpc = "post" /\ call.kind = "cmd" /\ call.cmd = WriteSetpointCmd /\ call.exc = NoExc

\* What was recorded at the put of the command the worker took last.
AtEnqueue == enq[Len(execd)]

\* The worker makes, without failure, the device call op.
Sends(op) ==
  wpc = "exec" /\ wops # <<>> /\ Head(wops) = op /\ wops' # wops /\ call'.exc = NoExc

\* C23 as stated: a write that ended without the caller having changed
\* voltage or current since its enqueue has sent the values the fields held
\* at the enqueue.
C23_Original ==
  (WriteSetpointDone /\ ~AtEnqueue.caller)
    => call.sent = <<ExpectedVset(AtEnqueue.voltage), ExpectedIset(AtEnqueue.current)>>

\* C23 as amended: each setter of a write sends the value its field holds
\* when the worker makes the call; and a write that ended with voltage and
\* current changed since its enqueue neither by the caller nor by a read
\* command of the worker has sent the values at the enqueue.
C23_ValuesAtExecution ==
  /\ [][/\ Sends("voltage_set") => call'.sent = Append(call.sent, ExpectedVset(voltage))
        /\ Sends("current_set") => call'.sent = Append(call.sent, ExpectedIset(current))]_vars
  /\ []((WriteSetpointDone /\ ~AtEnqueue.caller /\ ~AtEnqueue.worker)
          => call.sent = <<ExpectedVset(AtEnqueue.voltage),
                           ExpectedIset(AtEnqueue.current)>>)

\* A torn write: enqueued at 0 V, 0 A; the caller went to 5 V, 0.5 A while
\* it executed, and it sent the old voltage with the new current.
C23_Witness ==
  /\ WriteSetpointDone
  /\ AtEnqueue = [voltage |-> 0, current |-> 0, caller |-> TRUE, worker |-> FALSE]
  /\ voltage = 5000 /\ current = 500
  /\ call.sent = <<"\rVSET1:00.00", "\rISET1:0.500">>

\* C24: the batch read_output_data() is about to return (the sample queue
\* found empty) never holds more than one sample, so that the GUI's
\* assert len(data) == 1 on a non-empty batch holds.
C24_SingleSampleBatch == (cpc = "drain" /\ data_queue = <<>>) => Len(data) <= 1

\* The items of q before its first STOP; all of q when it holds none.
BeforeStop(q) ==
  LET stops == {i \in 1..Len(q) : q[i].cmd = "STOP"}
      k == IF stops = {} THEN Len(q) + 1 ELSE CHOOSE i \in stops : \A j \in stops : i <= j
  IN SubSeq(q, 1, k - 1)

\* The worker thread has ended.
WorkerEnded == wpc \in {"exited", "crashed"}

\* C25: STOP is a barrier in the command queue: when the worker has ended
\* after close() enqueued STOP, it has executed each command enqueued before
\* STOP once, in order; and no command enqueued after STOP is ever executed.
C25_StopBarrier ==
  /\ (WorkerEnded /\ Stops(hist) >= 1) => execd = BeforeStop(hist)
  /\ Stops(hist) >= 1 => IsPrefix(execd, BeforeStop(hist))

\* The device command a text written to the port belongs to.
CommandOf(text) ==
  CASE text \in {ExpectedButton("OCP", b) : b \in BOOLEAN} -> "OCP"
    [] text \in {ExpectedButton("OVP", b) : b \in BOOLEAN} -> "OVP"
    [] text \in {ExpectedButton("OUT", b) : b \in BOOLEAN} -> "OUT"
    [] text \in {ExpectedButton("LOCK", b) : b \in BOOLEAN} -> "LOCK"
    [] text \in {ExpectedVset(v) : v \in {0, 5000, 12000}} -> "VSET1"
    [] text \in {ExpectedIset(c) : c \in {0, 500, 1250}} -> "ISET1"
    [] OTHER -> "?"

CommandsOf(sent) == [i \in 1..Len(sent) |-> CommandOf(sent[i])]

\* The flag that selects a device command of a write.
FlagOf(name) ==
  CASE name \in {"OCP", "OVP", "OUT"} -> "STATUS"
    [] name = "LOCK" -> "LOCK"
    [] name \in {"VSET1", "ISET1"} -> "SETPOINT"

\* The device commands of a write with the given options, in the fixed order.
WriteOrder(options) ==
  LET Selected(name) == FlagOf(name) \in options
  IN SelectSeq(<<"OCP", "OVP", "OUT", "LOCK", "VSET1", "ISET1">>, Selected)

\* The last command the worker took is a write.
InWrite == call.kind = "cmd" /\ call.cmd.cmd = "WRITE"

\* C26: whatever its option set, a write command sends OCP, OVP, OUT, then
\* LOCK, then VSET1, then ISET1, restricted to the flags present: what it has
\* sent so far is always a beginning of that sequence, all of it once it has
\* ended without failure; and the step that fails sends nothing and ends the
\* command, so that none of the later ones is sent.
C26_WriteOrder ==
  /\ [](InWrite =>
          /\ IsPrefix(CommandsOf(call.sent), WriteOrder(call.cmd.options))
          /\ (wpc = "post" /\ call.exc = NoExc)
               => CommandsOf(call.sent) = WriteOrder(call.cmd.options)
          /\ call.exc # NoExc => wpc # "exec")
  /\ [][(wpc = "exec" /\ wcmd.cmd = "WRITE" /\ wops' # wops /\ call'.exc # NoExc)
          => (call'.sent = call.sent /\ wops' = <<>> /\ wpc' # "exec")]_vars

\* write_all() whose LOCK step failed at the transport: the three status
\* commands were sent, output last, and neither LOCK nor the setpoint.
C26_Witness ==
  /\ wpc = "post"
  /\ call.cmd = [cmd |-> "WRITE", options |-> {"SETPOINT", "LOCK", "STATUS"}]
  /\ call.exc = "DisconnectedError"
  /\ call.sent = <<"\rOCP0", "\rOVP0", "\rOUT0">>

\* What the device of the model reports: the setpoint 12.00 V (or the text
\* ERROR, which does not parse) and 1.250 A, and the status byte 0x61, OCP
\* and output on, OVP off.
DeviceVoltages == {12000, NoneVal}
DeviceCurrent == 1250
DeviceStatus == [ocp |-> TRUE, ovp |-> FALSE, output |-> TRUE]

ReadSettingsCmd == [cmd |-> "READ", options |-> {"SETPOINT", "STATUS"}]

\* C27: each query of a read command that succeeds stores the device's reply
\* in the shared desired field, whatever the caller had stored there: the
\* voltage (None when the reply does not parse) and the current for the
\* setpoint option, OCP, OVP and output for the status option.
C27_ReadOverwritesDesired ==
  [][/\ Sends("voltage_get") => voltage' \in DeviceVoltages
     /\ Sends("current_get") => current' = DeviceCurrent
     /\ Sends("status") => [ocp |-> ocp', ovp |-> ovp', output |-> output'] = DeviceStatus]_vars

\* read_settings() was still queued when the caller set 5 V and 0.5 A and
\* enqueued write_setpoint(); the write has sent the device's 12 V, 1.25 A.
C27_Witness ==
  /\ hist = <<ReadSettingsCmd, WriteSetpointCmd>>
  /\ enq[2] = [voltage |-> 5000, current |-> 500, caller |-> FALSE, worker |-> TRUE]
  /\ WriteSetpointDone
  /\ call.sent = <<"\rVSET1:12.00", "\rISET1:1.250">>

====
